---- MODULE Spec2Model ----
(***************************************************************************)
(* Model of the item CRUD service of src/main.py.                          *)
(*                                                                         *)
(* The items table is a bag of rows kept by a relational store that        *)
(* enforces the primary key on id.  Every HTTP request is a task that      *)
(* suspends only at its awaits on the store (fetch_one, fetch_all,         *)
(* execute), so each handler is one action per store call.  Body           *)
(* validation is done by the framework from the handler's signature        *)
(* before the handler body runs.                                           *)
(*                                                                         *)
(* Strings are modelled as a character repeated len times; prices are      *)
(* exact numbers (the Float column is a double, as is a Python float).     *)
(* Ids stay inside the range of the Integer column.                        *)
(***************************************************************************)
EXTENDS Integers, Sequences, FiniteSets, Bags, TLC

\* ---------------------------------------------------------------- bounds
MaxId == 2
NumReqs == 2
MaxPrice == 2

\* ------------------------------------------------------ program constants
NameMinLength == 3
NameMaxLength == 50
DescMaxLength == 200

Ids == 1..MaxId
Reqs == 1..NumReqs

\* ---------------------------------------------------------------- values
None == [kind |-> "None"]
NULL == [kind |-> "NULL"]
Str(c, n) == [kind |-> "str", ch |-> c, len |-> n]
Some(x) == [kind |-> "float", val |-> x]

AlnumChars == {"a", "Z", "7"}

\* ^[a-zA-Z0-9]+$ on a string made of one repeated character
PatternMatch(s) == s.len >= 1 /\ s.ch \in AlnumChars

\* ------------------------------------------------------------ validation
\* mutant: max_length is taken as an exclusive bound
NameOK_exclusive(name) ==
    /\ name.kind = "str"
    /\ name.len >= NameMinLength
    /\ name.len < NameMaxLength
    /\ PatternMatch(name)

NameOK(name) ==
    /\ name.kind = "str"
    /\ name.len >= NameMinLength
    /\ name.len <= NameMaxLength
    /\ PatternMatch(name)

DescriptionOK(description) ==
    \/ description = None
    \/ description.kind = "str" /\ description.len <= DescMaxLength

PriceOK(price) == price > 0

Item(body) ==
    /\ body.id \in Int
    /\ NameOK(body.name)
    /\ DescriptionOK(body.description)
    /\ PriceOK(body.price)

\* ------------------------------------------------------------ conversions
\* mutant: a None description is stored as the empty string
dict_empty_description(item) ==
    [id |-> item.id,
     name |-> item.name,
     description |-> IF item.description = None THEN Str("d", 0) ELSE item.description,
     price |-> item.price]

\* item.dict() bound as column values: a None description is stored as NULL
dict(item) ==
    [id |-> item.id,
     name |-> item.name,
     description |-> IF item.description = None THEN NULL ELSE item.description,
     price |-> item.price]

ValidationError == [kind |-> "ValidationError"]

\* Item.from_orm(row): read the attributes of the row and validate them
from_orm(row) ==
    LET item == [id |-> row.id,
                 name |-> row.name,
                 description |-> IF row.description = NULL THEN None
                                 ELSE row.description,
                 price |-> row.price]
    IN IF Item(item) THEN item ELSE ValidationError

\* ------------------------------------------------------------- the store
RowsWithId(t, id) == {row \in BagToSet(t) : row.id = id}
HasRow(t, id) == RowsWithId(t, id) # {}
IdsOf(t) == {row.id : row \in BagToSet(t)}
OtherRows(t, id) == [row \in {x \in BagToSet(t) : x.id # id} |-> t[row]]
CountId(t, id) == BagCardinality([row \in RowsWithId(t, id) |-> t[row]])

NoRow == [kind |-> "NoRow"]

\* select(ItemInDB).where(ItemInDB.id == id), first row or None
fetch_one(t, id) ==
    IF HasRow(t, id) THEN CHOOSE row \in RowsWithId(t, id) : TRUE ELSE NoRow

\* mutant: the id column is no primary key
NoPrimaryKey(t, id) == TRUE

\* primary_key=True: an insert of an id already stored is refused
PrimaryKeyFree(t, id) == ~HasRow(t, id)

insert(t, row) == t (+) SetToBag({row})

\* mutant: the update writes the price only and keeps the other columns
update_price_only(t, id, values) ==
    IF HasRow(t, id)
    THEN LET old == CHOOSE row \in RowsWithId(t, id) : TRUE
         IN OtherRows(t, id) (+)
            [row \in {[old EXCEPT !.price = values.price]} |-> CountId(t, id)]
    ELSE t

\* mutant: the update is a patch that skips the fields that are None
update_exclude_none(t, id, values) ==
    IF HasRow(t, id)
    THEN LET old == CHOOSE row \in RowsWithId(t, id) : TRUE
         IN OtherRows(t, id) (+)
            [row \in {IF values.description = NULL
                      THEN [values EXCEPT !.description = old.description]
                      ELSE values} |-> CountId(t, id)]
    ELSE t

\* mutant: the update inserts the row when none matches
update_upsert(t, id, values) ==
    OtherRows(t, id) (+) [row \in {values} |-> IF HasRow(t, id) THEN CountId(t, id) ELSE 1]

\* UPDATE items SET <values> WHERE id = :id
update(t, id, values) ==
    IF HasRow(t, id)
    THEN OtherRows(t, id) (+) [row \in {values} |-> CountId(t, id)]
    ELSE t

\* mutant: the delete statement has no where clause
delete_all(t, id) == EmptyBag

\* DELETE FROM items WHERE id = :id
delete(t, id) == OtherRows(t, id)

\* --------------------------------------------------------------- inputs
NameInputs == {Str("a", NameMinLength), Str("_", NameMinLength)}
DescInputs == {None, Str("d", 0), Str("d", DescMaxLength + 1)}
PriceInputs == 0..MaxPrice
Bodies == [id : Ids, name : NameInputs, description : DescInputs, price : PriceInputs]
MaxPriceInputs == {None} \cup {Some(p) : p \in PriceInputs}

\* the smaller inputs of the concurrent runs: per id two valid bodies that
\* differ in description and in price, and one body that fails validation
ConcBodies ==
    {b \in Bodies :
        \/ b.name = Str("a", NameMinLength) /\ b.description = None /\ b.price = 1
        \/ b.name = Str("a", NameMinLength) /\ b.description = Str("d", 0)
              /\ b.price = MaxPrice
        \/ b.name = Str("_", NameMinLength) /\ b.description = None /\ b.price = 1}
ConcMaxPriceInputs == {None, Some(1)}

\* the inputs of the validation runs: names and descriptions at and beside
\* the length limits, names of letters, digits and other characters, prices
\* at and beside zero
ValNameInputs ==
    {Str(c, n) : c \in {"a", "7", "_"},
                 n \in {NameMinLength - 1, NameMinLength,
                        NameMaxLength, NameMaxLength + 1}}
ValDescInputs == {None, Str("d", 0), Str("d", DescMaxLength), Str("d", DescMaxLength + 1)}
ValPriceInputs == {-1, 0, 1}
ValBodies ==
    [id : {1}, name : ValNameInputs, description : ValDescInputs, price : ValPriceInputs]

NoBody == [kind |-> "None"]
NoReq == [op |-> "none", item_id |-> 0, body |-> NoBody, max_price |-> None]
NoResp == [status |-> 0, body |-> NoBody]

Detail(d) == [kind |-> "detail", detail |-> d]
ItemBody(i) == [kind |-> "item", item |-> i]
ListBody(b) == [kind |-> "list", items |-> b]

NoWrite == [op |-> "none"]

\* ---------------------------------------------------------------- state
VARIABLES
    table,   \* the items table: a bag of rows
    pc,      \* per slot: "idle", "fetch_one", "fetch_all", "execute", "done"
    req,     \* per slot: the request being served
    resp,    \* per slot: the response sent
    calls,   \* per slot: the store calls the request has issued, in order
    conc,    \* per slot: slots whose current request overlapped in time
    last,    \* per id: the last write statement that got a success response
    pre      \* the table when the current request arrived (serial runs)

vars == <<table, pc, req, resp, calls, conc, last, pre>>

InFlight(r) == pc[r] \in {"fetch_one", "execute", "fetch_all"}

Init ==
    /\ table = EmptyBag
    /\ pc = [r \in Reqs |-> "idle"]
    /\ req = [r \in Reqs |-> NoReq]
    /\ resp = [r \in Reqs |-> NoResp]
    /\ calls = [r \in Reqs |-> <<>>]
    /\ conc = [r \in Reqs |-> {}]
    /\ last = [i \in Ids |-> NoWrite]
    /\ pre = EmptyBag

Respond(r, status, body) ==
    /\ pc' = [pc EXCEPT ![r] = "done"]
    /\ resp' = [resp EXCEPT ![r] = [status |-> status, body |-> body]]

Overlap(r) ==
    LET others == {s \in Reqs \ {r} : InFlight(s)}
    IN conc' = [s \in Reqs |-> IF s = r THEN others
                               ELSE IF s \in others THEN conc[s] \cup {r}
                               ELSE conc[s]]

\* ------------------------------------------------------ request arrival
\* POST /items/ : the body is validated before create_item runs
PostItems(r, body) ==
    /\ pc[r] = "idle"
    /\ req' = [req EXCEPT ![r] = [op |-> "create", item_id |-> 0,
                                  body |-> body, max_price |-> None]]
    /\ IF Item(body)
       THEN /\ pc' = [pc EXCEPT ![r] = "fetch_one"]
            /\ Overlap(r)
            /\ UNCHANGED resp
       ELSE /\ Respond(r, 422, Detail("validation"))
            /\ UNCHANGED conc
    /\ UNCHANGED <<table, calls, last>>

\* mutant: the body reaches update_item without validation
PutItem_unvalidated(r, item_id, body) ==
    /\ pc[r] = "idle"
    /\ req' = [req EXCEPT ![r] = [op |-> "update", item_id |-> item_id,
                                  body |-> body, max_price |-> None]]
    /\ pc' = [pc EXCEPT ![r] = "fetch_one"]
    /\ Overlap(r)
    /\ UNCHANGED <<table, resp, calls, last>>

\* PUT /items/{item_id} : the body is validated before update_item runs
PutItem(r, item_id, body) ==
    /\ pc[r] = "idle"
    /\ req' = [req EXCEPT ![r] = [op |-> "update", item_id |-> item_id,
                                  body |-> body, max_price |-> None]]
    /\ IF Item(body)
       THEN /\ pc' = [pc EXCEPT ![r] = "fetch_one"]
            /\ Overlap(r)
            /\ UNCHANGED resp
       ELSE /\ Respond(r, 422, Detail("validation"))
            /\ UNCHANGED conc
    /\ UNCHANGED <<table, calls, last>>

\* GET /items/{item_id}
GetItem(r, item_id) ==
    /\ pc[r] = "idle"
    /\ req' = [req EXCEPT ![r] = [op |-> "read", item_id |-> item_id,
                                  body |-> NoBody, max_price |-> None]]
    /\ pc' = [pc EXCEPT ![r] = "fetch_one"]
    /\ Overlap(r)
    /\ UNCHANGED <<table, resp, calls, last>>

\* DELETE /items/{item_id}
DeleteItem(r, item_id) ==
    /\ pc[r] = "idle"
    /\ req' = [req EXCEPT ![r] = [op |-> "delete", item_id |-> item_id,
                                  body |-> NoBody, max_price |-> None]]
    /\ pc' = [pc EXCEPT ![r] = "fetch_one"]
    /\ Overlap(r)
    /\ UNCHANGED <<table, resp, calls, last>>

\* GET /items?max_price=
GetItems(r, max_price) ==
    /\ pc[r] = "idle"
    /\ req' = [req EXCEPT ![r] = [op |-> "list", item_id |-> 0,
                                  body |-> NoBody, max_price |-> max_price]]
    /\ pc' = [pc EXCEPT ![r] = "fetch_all"]
    /\ Overlap(r)
    /\ UNCHANGED <<table, resp, calls, last>>

\* ----------------------------------------------------------- create_item
\* mutant: the existence check of create is missing
create_item_fetch_one_unchecked(r) ==
    /\ pc[r] = "fetch_one" /\ req[r].op = "create"
    /\ calls' = [calls EXCEPT ![r] = Append(@, "fetch_one")]
    /\ pc' = [pc EXCEPT ![r] = "execute"]
    /\ UNCHANGED <<table, req, resp, conc, last, pre>>

create_item_fetch_one(r) ==
    /\ pc[r] = "fetch_one" /\ req[r].op = "create"
    /\ calls' = [calls EXCEPT ![r] = Append(@, "fetch_one")]
    /\ LET existing == fetch_one(table, req[r].body.id)
       IN IF existing # NoRow
          THEN Respond(r, 409, Detail("Item already exists"))
          ELSE pc' = [pc EXCEPT ![r] = "execute"] /\ UNCHANGED resp
    /\ UNCHANGED <<table, req, conc, last, pre>>

\* mutant: the refused insert is reported as the conflict of the check
create_item_execute_conflict(r) ==
    /\ pc[r] = "execute" /\ req[r].op = "create"
    /\ calls' = [calls EXCEPT ![r] = Append(@, "execute")]
    /\ LET item == req[r].body
       IN IF PrimaryKeyFree(table, item.id)
          THEN /\ table' = insert(table, dict(item))
               /\ Respond(r, 201, ItemBody(item))
               /\ last' = [last EXCEPT ![item.id] = [op |-> "create", item |-> item]]
          ELSE /\ Respond(r, 409, Detail("Item already exists"))
               /\ UNCHANGED <<table, last>>
    /\ UNCHANGED <<req, conc, pre>>

create_item_execute(r) ==
    /\ pc[r] = "execute" /\ req[r].op = "create"
    /\ calls' = [calls EXCEPT ![r] = Append(@, "execute")]
    /\ LET item == req[r].body
       IN IF PrimaryKeyFree(table, item.id)
          THEN /\ table' = insert(table, dict(item))
               /\ Respond(r, 201, ItemBody(item))
               /\ last' = [last EXCEPT ![item.id] = [op |-> "create", item |-> item]]
          ELSE /\ Respond(r, 500, Detail("Internal Server Error"))
               /\ UNCHANGED <<table, last>>
    /\ UNCHANGED <<req, conc, pre>>

\* ------------------------------------------------------------- read_item
read_item(r) ==
    /\ pc[r] = "fetch_one" /\ req[r].op = "read"
    /\ calls' = [calls EXCEPT ![r] = Append(@, "fetch_one")]
    /\ LET row == fetch_one(table, req[r].item_id)
       IN IF row = NoRow
          THEN Respond(r, 404, Detail("Item not found"))
          ELSE IF from_orm(row) = ValidationError
               THEN Respond(r, 500, Detail("Internal Server Error"))
               ELSE Respond(r, 200, ItemBody(from_orm(row)))
    /\ UNCHANGED <<table, req, conc, last, pre>>

\* ----------------------------------------------------------- update_item
\* mutant: the id consistency check of update is missing
update_item_fetch_one_no_id_check(r) ==
    /\ pc[r] = "fetch_one" /\ req[r].op = "update"
    /\ calls' = [calls EXCEPT ![r] = Append(@, "fetch_one")]
    /\ LET existing == fetch_one(table, req[r].item_id)
       IN IF existing = NoRow
          THEN Respond(r, 404, Detail("Item not found"))
          ELSE pc' = [pc EXCEPT ![r] = "execute"] /\ UNCHANGED resp
    /\ UNCHANGED <<table, req, conc, last, pre>>

update_item_fetch_one(r) ==
    /\ pc[r] = "fetch_one" /\ req[r].op = "update"
    /\ calls' = [calls EXCEPT ![r] = Append(@, "fetch_one")]
    /\ LET existing == fetch_one(table, req[r].item_id)
       IN IF existing = NoRow
          THEN Respond(r, 404, Detail("Item not found"))
          ELSE IF req[r].body.id # req[r].item_id
               THEN Respond(r, 400, Detail("ID mismatch"))
               ELSE pc' = [pc EXCEPT ![r] = "execute"] /\ UNCHANGED resp
    /\ UNCHANGED <<table, req, conc, last, pre>>

\* mutant: the update looks the row up a second time before it writes
update_item_execute_recheck(r) ==
    /\ pc[r] = "execute" /\ req[r].op = "update"
    /\ calls' = [calls EXCEPT ![r] = Append(Append(@, "fetch_one"), "execute")]
    /\ LET updated == req[r].body
       IN IF HasRow(table, req[r].item_id)
          THEN /\ table' = update(table, req[r].item_id, dict(updated))
               /\ Respond(r, 200, ItemBody(updated))
               /\ last' = [last EXCEPT ![req[r].item_id] =
                               [op |-> "update", item |-> updated]]
          ELSE /\ Respond(r, 404, Detail("Item not found"))
               /\ UNCHANGED <<table, last>>
    /\ UNCHANGED <<req, conc, pre>>

update_item_execute(r) ==
    /\ pc[r] = "execute" /\ req[r].op = "update"
    /\ calls' = [calls EXCEPT ![r] = Append(@, "execute")]
    /\ LET updated == req[r].body
       IN /\ table' = update(table, req[r].item_id, dict(updated))
          /\ Respond(r, 200, ItemBody(updated))
          /\ last' = [last EXCEPT ![req[r].item_id] =
                          [op |-> "update", item |-> updated]]
    /\ UNCHANGED <<req, conc, pre>>

\* ----------------------------------------------------------- delete_item
\* mutant: the existence check of delete is inverted
delete_item_fetch_one_inverted(r) ==
    /\ pc[r] = "fetch_one" /\ req[r].op = "delete"
    /\ calls' = [calls EXCEPT ![r] = Append(@, "fetch_one")]
    /\ LET existing == fetch_one(table, req[r].item_id)
       IN IF existing # NoRow
          THEN Respond(r, 404, Detail("Item not found"))
          ELSE pc' = [pc EXCEPT ![r] = "execute"] /\ UNCHANGED resp
    /\ UNCHANGED <<table, req, conc, last, pre>>

delete_item_fetch_one(r) ==
    /\ pc[r] = "fetch_one" /\ req[r].op = "delete"
    /\ calls' = [calls EXCEPT ![r] = Append(@, "fetch_one")]
    /\ LET existing == fetch_one(table, req[r].item_id)
       IN IF existing = NoRow
          THEN Respond(r, 404, Detail("Item not found"))
          ELSE pc' = [pc EXCEPT ![r] = "execute"] /\ UNCHANGED resp
    /\ UNCHANGED <<table, req, conc, last, pre>>

delete_item_execute(r) ==
    /\ pc[r] = "execute" /\ req[r].op = "delete"
    /\ calls' = [calls EXCEPT ![r] = Append(@, "execute")]
    /\ table' = delete(table, req[r].item_id)
    /\ Respond(r, 204, NoBody)
    /\ last' = [last EXCEPT ![req[r].item_id] = [op |-> "delete"]]
    /\ UNCHANGED <<req, conc, pre>>

\* ------------------------------------------------------------ list_items
\* the rows converted to items, as a bag (the store imposes no order)
ItemsOf(t) ==
    LET items == {from_orm(row) : row \in BagToSet(t)}
    IN [i \in items |->
           BagCardinality([row \in {x \in BagToSet(t) : from_orm(x) = i} |-> t[row]])]

\* mutant: the bound is exclusive
PriceFilterStrict(items_list, max_price) ==
    [i \in {x \in DOMAIN items_list : x.price < max_price} |-> items_list[i]]

PriceFilter(items_list, max_price) ==
    [i \in {x \in DOMAIN items_list : x.price <= max_price} |-> items_list[i]]

list_items(r) ==
    /\ pc[r] = "fetch_all" /\ req[r].op = "list"
    /\ calls' = [calls EXCEPT ![r] = Append(@, "fetch_all")]
    /\ LET items_list == ItemsOf(table)
           max_price == req[r].max_price
       IN IF ValidationError \in DOMAIN items_list
          THEN Respond(r, 500, Detail("Internal Server Error"))
          ELSE IF max_price # None
               THEN Respond(r, 200, ListBody(PriceFilter(items_list, max_price.val)))
               ELSE Respond(r, 200, ListBody(items_list))
    /\ UNCHANGED <<table, req, conc, last, pre>>

\* ------------------------------------------------- the response is taken
Close(r) ==
    /\ pc[r] = "done"
    /\ pc' = [pc EXCEPT ![r] = "idle"]
    /\ req' = [req EXCEPT ![r] = NoReq]
    /\ resp' = [resp EXCEPT ![r] = NoResp]
    /\ calls' = [calls EXCEPT ![r] = <<>>]
    /\ conc' = [s \in Reqs |-> IF s = r THEN {} ELSE conc[s] \ {r}]
    /\ UNCHANGED <<table, last, pre>>

\* ------------------------------------------------------- specifications
\* requests are served concurrently, interleaved at the store calls
Next ==
    \/ \E r \in Reqs, body \in ConcBodies : PostItems(r, body) /\ UNCHANGED pre
    \/ \E r \in Reqs, item_id \in Ids, body \in ConcBodies :
           PutItem(r, item_id, body) /\ UNCHANGED pre
    \/ \E r \in Reqs, item_id \in Ids : GetItem(r, item_id) /\ UNCHANGED pre
    \/ \E r \in Reqs, item_id \in Ids : DeleteItem(r, item_id) /\ UNCHANGED pre
    \/ \E r \in Reqs, max_price \in ConcMaxPriceInputs :
           GetItems(r, max_price) /\ UNCHANGED pre
    \/ \E r \in Reqs : create_item_fetch_one(r)
    \/ \E r \in Reqs : create_item_execute(r)
    \/ \E r \in Reqs : read_item(r)
    \/ \E r \in Reqs : update_item_fetch_one(r)
    \/ \E r \in Reqs : update_item_execute(r)
    \/ \E r \in Reqs : delete_item_fetch_one(r)
    \/ \E r \in Reqs : delete_item_execute(r)
    \/ \E r \in Reqs : list_items(r)
    \/ \E r \in Reqs : Close(r)

Spec == Init /\ [][Next]_vars

\* requests are served one after another: a request arrives only when no
\* other is being served (one slot is enough for that), and the table it
\* finds is remembered in pre
Quiet == \A r \in Reqs : pc[r] = "idle"

NextSeq ==
    \/ \E r \in Reqs, body \in Bodies :
           Quiet /\ r = 1 /\ PostItems(r, body) /\ pre' = table
    \/ \E r \in Reqs, item_id \in Ids, body \in Bodies :
           Quiet /\ r = 1 /\ PutItem(r, item_id, body) /\ pre' = table
    \/ \E r \in Reqs, item_id \in Ids :
           Quiet /\ r = 1 /\ GetItem(r, item_id) /\ pre' = table
    \/ \E r \in Reqs, item_id \in Ids :
           Quiet /\ r = 1 /\ DeleteItem(r, item_id) /\ pre' = table
    \/ \E r \in Reqs, max_price \in MaxPriceInputs :
           Quiet /\ r = 1 /\ GetItems(r, max_price) /\ pre' = table
    \/ \E r \in Reqs : create_item_fetch_one(r)
    \/ \E r \in Reqs : create_item_execute(r)
    \/ \E r \in Reqs : read_item(r)
    \/ \E r \in Reqs : update_item_fetch_one(r)
    \/ \E r \in Reqs : update_item_execute(r)
    \/ \E r \in Reqs : delete_item_fetch_one(r)
    \/ \E r \in Reqs : delete_item_execute(r)
    \/ \E r \in Reqs : list_items(r)
    \/ \E r \in Reqs : Close(r)

SpecSeq == Init /\ [][NextSeq]_vars

\* create and update requests with bodies at the validation limits, served
\* one after another
NextVal ==
    \/ \E r \in Reqs, body \in ValBodies :
           Quiet /\ r = 1 /\ PostItems(r, body) /\ pre' = table
    \/ \E r \in Reqs, item_id \in Ids, body \in ValBodies :
           Quiet /\ r = 1 /\ PutItem(r, item_id, body) /\ pre' = table
    \/ \E r \in Reqs : create_item_fetch_one(r)
    \/ \E r \in Reqs : create_item_execute(r)
    \/ \E r \in Reqs : update_item_fetch_one(r)
    \/ \E r \in Reqs : update_item_execute(r)
    \/ \E r \in Reqs : Close(r)

SpecVal == Init /\ [][NextVal]_vars

\* ------------------------------------------------------ claim vocabulary
Done(r, op) == pc[r] = "done" /\ req[r].op = op
Mismatch(r) == req[r].body.id # req[r].item_id
\* the step in which request r gets its response
Completes(r) == pc[r] # "done" /\ pc'[r] = "done"
Success == {200, 201, 204}

\* C1: served one after another, a valid create on an id without a stored
\* row returns 201 and adds exactly its row; on an id with a stored row it
\* returns 409, whatever its other fields, and leaves the table as it was.
CreateUniqueness ==
    \A r \in Reqs :
        Done(r, "create") /\ Item(req[r].body) =>
            LET item == req[r].body IN
            IF HasRow(pre, item.id)
            THEN resp[r].status = 409 /\ table = pre
            ELSE /\ resp[r] = [status |-> 201, body |-> ItemBody(item)]
                 /\ CountId(table, item.id) = 1
                 /\ \A row \in RowsWithId(table, item.id) : from_orm(row) = item
                 /\ OtherRows(table, item.id) = pre

\* a second create of a stored id, with other field values, was refused
CreateUniquenessWitness ==
    \E r \in Reqs :
        /\ Done(r, "create") /\ resp[r].status = 409
        /\ last[req[r].body.id].op = "create"
        /\ last[req[r].body.id].item.price # req[r].body.price
        /\ last[req[r].body.id].item.description # req[r].body.description

\* C2: in every state of the concurrent service, the table holds at most
\* one row per id.
OneRowPerId == \A id \in Ids : CountId(table, id) <= 1

\* two creates of one id both passed the existence check; one insert was
\* refused by the primary key
OneRowPerIdWitness ==
    \E r1, r2 \in Reqs :
        /\ Done(r1, "create") /\ Done(r2, "create")
        /\ req[r1].body.id = req[r2].body.id
        /\ resp[r1].status = 201 /\ resp[r2].status = 500
        /\ HasRow(table, req[r1].body.id)

\* C3: of two overlapping requests of the same mutating type on the same id
\* that did not both fail, exactly one got the success response.
Target(r) == IF req[r].op = "create" THEN req[r].body.id ELSE req[r].item_id

ExactlyOneWriterSucceeds ==
    \A r1, r2 \in Reqs :
        /\ r1 # r2 /\ r2 \in conc[r1]
        /\ pc[r1] = "done" /\ pc[r2] = "done"
        /\ req[r1].op \in {"create", "update", "delete"}
        /\ req[r1].op = req[r2].op
        /\ Target(r1) = Target(r2)
        /\ (resp[r1].status \in Success \/ resp[r2].status \in Success)
        => ~(resp[r1].status \in Success /\ resp[r2].status \in Success)

\* C4 as stated: served one after another, a valid update whose body id
\* differs from the path id gets 400 in every store state and changes nothing.
UpdateMismatchAlways400 ==
    \A r \in Reqs :
        Done(r, "update") /\ Item(req[r].body) /\ Mismatch(r) =>
            resp[r].status = 400 /\ table = pre

\* C4 amended: such an update gets 400 when a row of the path id is stored
\* and 404 when none is, whether or not a row of the body id is stored, and
\* the table is left as it was.
UpdateIdentityEnforcement ==
    \A r \in Reqs :
        Done(r, "update") /\ Item(req[r].body) /\ Mismatch(r) =>
            /\ resp[r].status = IF HasRow(pre, req[r].item_id) THEN 400 ELSE 404
            /\ table = pre

\* a mismatching update was refused with 400 while the body's id is stored too
UpdateIdentityEnforcementWitness ==
    \E r \in Reqs :
        /\ Done(r, "update") /\ Mismatch(r) /\ resp[r].status = 400
        /\ HasRow(table, req[r].item_id) /\ HasRow(table, req[r].body.id)

\* C5: served one after another, a read of an id whose last successful
\* write was a create returns 200 with the created item, equal in id, name,
\* description and price; an absent description comes back absent.
RoundTrip ==
    \A r \in Reqs :
        Done(r, "read") /\ last[req[r].item_id].op = "create" =>
            resp[r] = [status |-> 200,
                       body |-> ItemBody(last[req[r].item_id].item)]

\* an item created without description was read back
RoundTripWitness ==
    \E r \in Reqs :
        /\ Done(r, "read") /\ resp[r].status = 200
        /\ last[req[r].item_id].op = "create"
        /\ last[req[r].item_id].item.description = None
        /\ resp[r].body.item.description = None

\* C6: served one after another, a delete of an id without a stored row
\* returns 404 and leaves the table as it was, and a read of an id whose
\* last successful write was a delete returns 404.
DeleteAbsence ==
    \A r \in Reqs :
        /\ Done(r, "delete") /\ ~HasRow(pre, req[r].item_id) =>
               resp[r].status = 404 /\ table = pre
        /\ Done(r, "delete") /\ HasRow(pre, req[r].item_id) =>
               resp[r].status = 204
        /\ Done(r, "read") /\ last[req[r].item_id].op = "delete" =>
               resp[r].status = 404

\* an id that was created and then deleted was read
DeleteAbsenceWitness ==
    \E r \in Reqs :
        /\ Done(r, "read") /\ resp[r].status = 404
        /\ last[req[r].item_id].op = "delete"
        /\ table # EmptyBag

\* C7: a list with max_price P returns each stored item with price <= P
\* exactly once and nothing else; a list without max_price returns each
\* stored item exactly once.
Wanted(row, max_price) == max_price = None \/ row.price <= max_price.val

FilterCorrectness ==
    \A r \in Reqs :
        Done(r, "list") =>
            /\ resp[r].status = 200
            /\ resp[r].body.kind = "list"
            /\ LET got == resp[r].body.items
                   want == {row \in BagToSet(table) : Wanted(row, req[r].max_price)}
               IN /\ DOMAIN got = {from_orm(row) : row \in want}
                  /\ \A i \in DOMAIN got : got[i] = 1
                  /\ Cardinality(DOMAIN got) = Cardinality(want)

\* a list whose bound equals one stored price and is below another
FilterCorrectnessWitness ==
    \E r \in Reqs :
        /\ Done(r, "list") /\ req[r].max_price # None
        /\ \E row \in BagToSet(table) : row.price = req[r].max_price.val
        /\ \E row \in BagToSet(table) : row.price > req[r].max_price.val
        /\ BagCardinality(resp[r].body.items) = 1

\* C8: under any interleaving, an id goes from absent to present only in the
\* step of a create of that id answered 201, and from present to absent only
\* in the step of a delete of that id answered 204; the write of an update
\* leaves the set of stored ids and the number of rows of every id as they
\* were; reads and lists change no presence.
PerIdStateMachine ==
    [][ /\ \A id \in Ids :
            /\ ~HasRow(table, id) /\ HasRow(table', id) =>
                   \E r \in Reqs : /\ req[r].op = "create" /\ req[r].body.id = id
                                   /\ Completes(r) /\ resp'[r].status = 201
            /\ HasRow(table, id) /\ ~HasRow(table', id) =>
                   \E r \in Reqs : /\ req[r].op = "delete" /\ req[r].item_id = id
                                   /\ Completes(r) /\ resp'[r].status = 204
        /\ \A r \in Reqs :
            /\ req[r].op = "update" /\ Completes(r) =>
                   /\ IdsOf(table') = IdsOf(table)
                   /\ \A id \in Ids : CountId(table', id) = CountId(table, id)
            /\ req[r].op \in {"read", "list"} /\ Completes(r) =>
                   IdsOf(table') = IdsOf(table)
      ]_vars

\* an update was answered 200 and its row is stored with the id it had,
\* while another id was created and deleted
PerIdStateMachineWitness ==
    \E r \in Reqs :
        /\ Done(r, "update") /\ resp[r].status = 200
        /\ CountId(table, req[r].item_id) = 1
        /\ \A row \in RowsWithId(table, req[r].item_id) : from_orm(row) = req[r].body
        /\ \E id \in Ids : last[id].op = "delete" /\ ~HasRow(table, id)

\* C9: under any interleaving, a step that answers 409, 404, 400 or 422, any
\* step of a read or a list, and any step that answers nothing leave the
\* table as it was; a step that answers 201, 200 or 204 leaves every row of
\* another id as it was.
OnlySuccessfulMutationsChangeStore ==
    [][ /\ (\A r \in Reqs : ~Completes(r)) => table' = table
        /\ \A r \in Reqs :
            Completes(r) =>
                /\ resp'[r].status \in {409, 404, 400, 422} => table' = table
                /\ req'[r].op \in {"read", "list"} => table' = table
                /\ resp'[r].status \in Success =>
                       OtherRows(table', Target(r)) = OtherRows(table, Target(r))
      ]_vars

\* a delete was answered 204 while a row of another id stays stored
OnlySuccessfulMutationsChangeStoreWitness ==
    \E r \in Reqs :
        /\ Done(r, "delete") /\ resp[r].status = 204
        /\ ~HasRow(table, req[r].item_id)
        /\ table # EmptyBag

\* C10: a create or update whose body fails validation is answered 422
\* without having issued any store call, in every store state; served one
\* after another, the table is as it was.
ValidationPrecedesStore ==
    \A r \in Reqs :
        req[r].op \in {"create", "update"} /\ ~Item(req[r].body) =>
            /\ pc[r] = "done"
            /\ resp[r].status = 422
            /\ calls[r] = <<>>
            /\ table = pre

\* an update with an invalid body on an id without a stored row got 422
ValidationPrecedesStoreWitness ==
    \E r \in Reqs :
        /\ Done(r, "update") /\ ~Item(req[r].body)
        /\ ~HasRow(table, req[r].item_id)
        /\ table # EmptyBag
        /\ resp[r].status = 422

\* C11: served one after another, after an update of a stored id with a
\* matching body id is answered 200 the row of that id equals the body in
\* id, name, description and price (a body without description leaves the
\* description NULL), the other rows are as they were, and a read of an id
\* whose last successful write was an update returns 200 with that body.
FullRowReplace ==
    \A r \in Reqs :
        /\ Done(r, "update") /\ Item(req[r].body) /\ ~Mismatch(r)
              /\ HasRow(pre, req[r].item_id) =>
               LET updated == req[r].body IN
               /\ resp[r] = [status |-> 200, body |-> ItemBody(updated)]
               /\ CountId(table, updated.id) = 1
               /\ \A row \in RowsWithId(table, updated.id) :
                      /\ row.id = updated.id
                      /\ row.name = updated.name
                      /\ row.price = updated.price
                      /\ IF updated.description = None
                         THEN row.description = NULL
                         ELSE row.description = updated.description
               /\ OtherRows(table, updated.id) = OtherRows(pre, updated.id)
        /\ Done(r, "read") /\ last[req[r].item_id].op = "update" =>
               resp[r] = [status |-> 200,
                          body |-> ItemBody(last[req[r].item_id].item)]

\* an update without description replaced a row that had a description and
\* another price
FullRowReplaceWitness ==
    \E r \in Reqs :
        /\ Done(r, "update") /\ resp[r].status = 200
        /\ req[r].body.description = None
        /\ \E old \in RowsWithId(pre, req[r].item_id) :
               old.description # NULL /\ old.price # req[r].body.price
        /\ \A row \in RowsWithId(table, req[r].item_id) : row.description = NULL

\* C12: a create or update body is accepted (not answered 422) exactly when
\* its id is an integer, its name has 3 to 50 characters, all of them in
\* [A-Za-z0-9], its description is absent or has at most 200 characters, and
\* its price is above 0; a created item with the empty description is
\* stored with the empty string, one without description with NULL.
Alnum == {"a", "b", "Z", "0", "7", "9"}

Accepted(body) ==
    /\ body.id \in Int
    /\ body.name.len >= 3 /\ body.name.len <= 50
    /\ body.name.ch \in Alnum
    /\ (body.description = None \/ body.description.len <= 200)
    /\ body.price > 0

ConcurrentCreateRace ==
    [][ \A r \in Reqs :
            req[r].op = "create" /\ pc[r] = "execute" /\ Completes(r) =>
                LET item == req[r].body IN
                /\ calls'[r] = <<"fetch_one", "execute">>
                /\ IF HasRow(table, item.id)
                   THEN /\ resp'[r].status = 500
                        /\ table' = table
                   ELSE /\ resp'[r] = [status |-> 201, body |-> ItemBody(item)]
                        /\ CountId(table', item.id) = 1
                        /\ \A row \in RowsWithId(table', item.id) : from_orm(row) = item
                        /\ OtherRows(table', item.id) = table
      ]_vars

\* two overlapping creates of one id with different bodies both passed the
\* check; the first insert is stored, the second was answered 500
ConcurrentCreateRaceWitness ==
    \E r1, r2 \in Reqs :
        /\ r2 \in conc[r1]
        /\ Done(r1, "create") /\ Done(r2, "create")
        /\ req[r1].body.id = req[r2].body.id
        /\ req[r1].body # req[r2].body
        /\ resp[r1].status = 201 /\ resp[r2].status = 500
        /\ calls[r2] = <<"fetch_one", "execute">>
        /\ \A row \in RowsWithId(table, req[r1].body.id) : from_orm(row) = req[r1].body
        /\ CountId(table, req[r1].body.id) = 1

\* C14: under any interleaving, every create, update and delete whose
\* handler runs (the body, if any, passed validation) issues exactly one
\* fetch_one first and then at most one execute; its lookup changes nothing
\* and leads to the write exactly on the passing branch (no row for create;
\* a row for update and delete, and for update the body id equal to the path
\* id); the write is issued once and ends the request; no call is repeated.
HandlerRuns(q) ==
    \/ q.op = "delete"
    \/ q.op \in {"create", "update"} /\ Item(q.body)

Passing(q) ==
    CASE q.op = "create" -> ~HasRow(table, q.body.id)
      [] q.op = "update" -> HasRow(table, q.item_id) /\ q.body.id = q.item_id
      [] q.op = "delete" -> HasRow(table, q.item_id)

EffectiveUpdate ==
    \A id \in Ids :
        last[id].op = "update" =>
            /\ CountId(table, id) = 1
            /\ \A row \in RowsWithId(table, id) : from_orm(row) = last[id].item

\* C16: under any interleaving, after every step each stored row equals in
\* id, name, description and price the body of the create or update whose
\* write was the last successful one of that id, and an item returned by a
\* read or in a list equals the body of the last successful create or update
\* of its id at the moment of the fetch.
Written(w, row) == w.op \in {"create", "update"} /\ from_orm(row) = w.item

NoTornRows ==
    [][ /\ \A row \in BagToSet(table') : Written(last'[row.id], row)
        /\ \A r \in Reqs :
            /\ req[r].op = "read" /\ Completes(r) /\ resp'[r].status = 200 =>
                   /\ last[req[r].item_id].op \in {"create", "update"}
                   /\ resp'[r].body.item = last[req[r].item_id].item
            /\ req[r].op = "list" /\ Completes(r) =>
                   /\ resp'[r].status = 200
                   /\ \A i \in DOMAIN resp'[r].body.items :
                          /\ last[i.id].op \in {"create", "update"}
                          /\ i = last[i.id].item
      ]_vars

\* two overlapping updates of one id with bodies that differ in description
\* and price were both answered 200, and a row of the id is stored
NoTornRowsWitness ==
    \E r1, r2 \in Reqs :
        /\ r2 \in conc[r1]
        /\ Done(r1, "update") /\ Done(r2, "update")
        /\ resp[r1].status = 200 /\ resp[r2].status = 200
        /\ req[r1].item_id = req[r2].item_id
        /\ req[r1].body.description # req[r2].body.description
        /\ req[r1].body.price # req[r2].body.price
        /\ CountId(table, req[r1].item_id) = 1

====
